---- MODULE Spec2Model ----
(***************************************************************************)
(* JamfUploadSharepointUpdater (Shared_Processors/                         *)
(* JamfUploadSharepointUpdater.py): the processor that records a           *)
(* packaging run in three SharePoint lists, "Jamf Content List", "Jamf     *)
(* Test Coordination" and "Jamf Test Review".                              *)
(*                                                                         *)
(* main() is modelled call by call: every call of connect_sharepoint,      *)
(* check_list, add_record, update_record and delete_record is one action,  *)
(* named after the line of main() that makes the call (A... in the         *)
(* untested section, lines 209-640; B... in the prod section, lines        *)
(* 643-890).  Runs do not overlap in Spec: a run starts when the previous  *)
(* one has returned.                                                       *)
(*                                                                         *)
(* Text that the code inspects or encodes character by character (the      *)
(* JSS URL, the name parts, the version) is a sequence of one-character    *)
(* strings; Str renders it as the string that is sent to SharePoint.       *)
(* env.get() of an absent input gives None; None and "" are both falsy     *)
(* and main() only tests the optional inputs for truth or stores them, so  *)
(* both are the empty text here.                                           *)
(***************************************************************************)
EXTENDS Integers, Sequences, FiniteSets, TLC

(***************************************************************************)
(* Bounds of the model.                                                    *)
(***************************************************************************)
\* complete runs of main() in one behaviour
MaxRuns == 2
\* the entries of a criteria dict
MaxCriteria == 3
\* the runs before the life of a version is followed
MaxBefore == 1
\* the items of the list delete_record is applied to on its own
MaxItems == 3

(***************************************************************************)
(* Text.                                                                   *)
(***************************************************************************)
RECURSIVE Str(_)
Str(s) == IF s = <<>> THEN "" ELSE Head(s) \o Str(Tail(s))

\* Python's  sub in s
Contains(s, sub) ==
    \E i \in 1..(Len(s) - Len(sub) + 1) : SubSeq(s, i, i + Len(sub) - 1) = sub

Letters ==
    {"a","b","c","d","e","f","g","h","i","j","k","l","m",
     "n","o","p","q","r","s","t","u","v","w","x","y","z",
     "A","B","C","D","E","F","G","H","I","J","K","L","M",
     "N","O","P","Q","R","S","T","U","V","W","X","Y","Z"}

Digits == {"0","1","2","3","4","5","6","7","8","9"}

\* urllib.parse.quote_plus: the characters that are never quoted
AlwaysSafe == Letters \cup Digits \cup {"_", ".", "-", "~"}

\* %XX of the ASCII punctuation that occurs in the names
PercentCode(c) ==
    CASE c = "(" -> "%28"
      [] c = ")" -> "%29"
      [] c = "+" -> "%2B"
      [] c = "/" -> "%2F"
      [] c = ":" -> "%3A"
      [] c = "&" -> "%26"
      [] c = "=" -> "%3D"
      [] c = "," -> "%2C"
      [] OTHER   -> "%25"

\* Fault: urllib.parse.quote in place of quote_plus (a space becomes %20).
RECURSIVE quote_not_plus(_)
quote_not_plus(s) ==
    IF s = <<>> THEN ""
    ELSE LET c == Head(s) IN
         (IF c = " " THEN "%20"
          ELSE IF c \in AlwaysSafe THEN c
          ELSE PercentCode(c)) \o quote_not_plus(Tail(s))

RECURSIVE quote_plus(_)
quote_plus(s) ==
    IF s = <<>> THEN ""
    ELSE LET c == Head(s) IN
         (IF c = " " THEN "+"
          ELSE IF c \in AlwaysSafe THEN c
          ELSE PercentCode(c)) \o quote_plus(Tail(s))

\* urllib.parse.urlencode of the one-entry dict {"Title": policy_name}
urlencode_Title(policy_name) == "Title=" \o quote_plus(policy_name)

test_report_url(sp_url, policy_name) ==
    sp_url \o "/Lists/" \o "Jamf_Item_Test" \o "/DispForm.aspx?"
           \o urlencode_Title(policy_name)

\* f"{final_policy_name} (Testing) v{version}"
TestingV == <<" ", "(", "T", "e", "s", "t", "i", "n", "g", ")", " ", "v">>

self_service_name(final_policy_name, version) ==
    final_policy_name \o TestingV \o version

\* Fault: a part is appended whether it was supplied or not.
AppendPart_Always(s, part) == s \o <<" ">> \o part
\* lines 211-219: the name, then each supplied part after one space
AppendPart(s, part) == IF part # <<>> THEN s \o <<" ">> \o part ELSE s

final_name(name, major_version, policy_language, policy_license, platform) ==
    AppendPart(AppendPart(AppendPart(AppendPart(name,
        major_version), policy_language), policy_license), platform)

(***************************************************************************)
(* The SharePoint lists.                                                   *)
(***************************************************************************)
ContentList == "Jamf Content List"
TestCoordination == "Jamf Test Coordination"
TestReview == "Jamf Test Review"
ListNames == {ContentList, TestCoordination, TestReview}

Columns(listname) ==
    CASE listname = ContentList ->
           {"Self Service Content", "Untested Version", "Category",
            "Content Type", "Autostage", "Prod. Version", "Test Report"}
      [] listname = TestCoordination ->
           {"Self Service Content Name", "Final Content Name",
            "Release Completed", "Status"}
      [] listname = TestReview ->
           {"Self Service Content Name", "Final Content Name",
            "Release Completed TST", "Release Completed PRD",
            "Ready for Production", "Executable_Command", "Process_Name"}

\* add_record sends one column; the others take the list's default.  main()
\* looks for 'Release Completed' = 'No' (lines 403, 548, 571) on entries it
\* only ever created, so the Yes/No columns default to "No"; every other
\* column is empty (a new entry's Status is none of those that line 366
\* calls "work had already been done").
YesNoColumns ==
    {"Release Completed", "Release Completed TST", "Release Completed PRD",
     "Ready for Production", "Autostage"}

ColumnDefault(column) == IF column \in YesNoColumns THEN "No" ELSE ""

NewItem(listname, id, list_key, list_value) ==
    [c \in Columns(listname) \cup {"ID"} |->
        IF c = "ID" THEN id
        ELSE IF c = list_key THEN list_value
        ELSE ColumnDefault(c)]

(***************************************************************************)
(* Queries.  A criteria dict is the sequence of its entries in insertion   *)
(* order, each <<column, operand, value>>.                                 *)
(***************************************************************************)
\* Fault: query["Where"] stays in the order of the loop.
Reverse_Kept(s) == s
Reverse(s) == [i \in 1..Len(s) |-> s[Len(s) + 1 - i]]

And == <<"And">>

\* the loop of build_query, before query["Where"].reverse()
RECURSIVE WhereAppended(_)
WhereAppended(criteria) ==
    IF criteria = <<>> THEN <<>>
    ELSE LET n     == Len(criteria)
             entry == criteria[n]
             first == (n = 1)
         IN WhereAppended(SubSeq(criteria, 1, n - 1))
              \o << <<entry[2], entry[1], entry[3]>> >>
              \o (IF ~first THEN <<And>> ELSE <<>>)

build_query(criteria) ==
    [fields |-> <<"ID">> \o [i \in 1..Len(criteria) |-> criteria[i][1]],
     query  |-> [Where |-> Reverse(WhereAppended(criteria))]]

IsAnd(e) == Len(e) = 1

\* shareplum nests the elements of query["Where"] in order: an "And" opens
\* an <And> inside the innermost open one and stays open to the end, a
\* comparison goes into the innermost open element.  CAML wants one element
\* in <Where> and two in every <And>.
NextAnd(where, i) ==
    LET later == {j \in (i + 1)..Len(where) : IsAnd(where[j])}
    IN IF later = {} THEN Len(where) + 1
       ELSE CHOOSE j \in later : \A k \in later : j <= k

ChildCount(where, i) ==
    LET j == NextAnd(where, i)
    IN (j - i - 1) + (IF j <= Len(where) THEN 1 ELSE 0)

WellFormed(where) ==
    /\ ChildCount(where, 0) = 1
    /\ \A i \in 1..Len(where) : IsAnd(where[i]) => ChildCount(where, i) = 2

Compare(e, item) ==
    IF e[1] = "Eq" THEN item[e[2]] = e[3] ELSE item[e[2]] # e[3]

\* the item satisfies the <Where> tree (no item does when the tree is not CAML)
Matches(where, item) ==
    /\ WellFormed(where)
    /\ \A i \in 1..Len(where) : IsAnd(where[i]) \/ Compare(where[i], item)

\* sp_list.GetListItems(fields=fields, query=query): the matching items,
\* each as its ID and the asked columns
GetListItems(items, fields, query) ==
    {[c \in {fields[i] : i \in 1..Len(fields)} |-> it[c]] :
        it \in {x \in items : Matches(query.Where, x)}}

RECURSIVE SortedIds(_)
SortedIds(ids) ==
    IF ids = {} THEN <<>>
    ELSE LET m == CHOOSE x \in ids : \A y \in ids : x <= y
         IN <<m>> \o SortedIds(ids \ {m})

(***************************************************************************)
(* The list helpers of the processor, as functions of the items of the     *)
(* list they act on.                                                       *)
(***************************************************************************)
check_list(items, criteria) ==
    LET q == build_query(criteria)
    IN GetListItems(items, q.fields, q.query) # {}

\* UpdateListItems(kind="Update") of one row
UpdateItem(items, id, list_key, list_value) ==
    {IF it["ID"] = id THEN [it EXCEPT ![list_key] = list_value] ELSE it :
        it \in items}

RECURSIVE UpdateRows(_, _, _, _)
UpdateRows(items, ids, list_key, list_value) ==
    IF ids = <<>> THEN items
    ELSE UpdateRows(UpdateItem(items, Head(ids), list_key, list_value),
                    Tail(ids), list_key, list_value)

\* `for row in rows`: the IDs of the rows the query returns, in order
matching_ids(items, criteria) ==
    LET q    == build_query(criteria)
        rows == GetListItems(items, q.fields, q.query)
    IN SortedIds({row["ID"] : row \in rows})

update_record(items, list_key, list_value, criteria) ==
    UpdateRows(items, matching_ids(items, criteria), list_key, list_value)

\* update_record left by an exception after `done` rows were written
update_record_raised(items, list_key, list_value, criteria, done) ==
    UpdateRows(items, SubSeq(matching_ids(items, criteria), 1, done),
               list_key, list_value)

add_record(items, id, listname, list_key, list_value) ==
    items \cup {NewItem(listname, id, list_key, list_value)}

\* delete_record calls UpdateListItems(kind="Delete") inside the loop over
\* the rows, each time with all the IDs collected so far
delete_requests(ids) == [i \in 1..Len(ids) |-> SubSeq(ids, 1, i)]

RECURSIVE DeleteRows(_, _)
DeleteRows(items, requests) ==
    IF requests = <<>> THEN items
    ELSE LET delete_data == Head(requests)
         IN DeleteRows(
              {it \in items :
                  \A i \in 1..Len(delete_data) : it["ID"] # delete_data[i]},
              Tail(requests))

delete_record(items, criteria) ==
    DeleteRows(items, delete_requests(matching_ids(items, criteria)))

\* delete_record left by an exception after `done` requests were served
delete_record_raised(items, criteria, done) ==
    DeleteRows(items,
               SubSeq(delete_requests(matching_ids(items, criteria)), 1,
                      done))

(***************************************************************************)
(* The inputs of a run (self.env).                                         *)
(***************************************************************************)
None == <<>>

Prd == <<"p", "r", "d">>
Tst == <<"t", "s", "t">>

\* a production server, a test server, a server that is neither, and a
\* host name with both markers
JssPrd == <<"j", "s", "s", ".", "p", "r", "d">>
JssTst == <<"j", "s", "s", ".", "t", "s", "t">>
JssDev == <<"j", "s", "s", ".", "d", "e", "v">>
JssBoth == <<"t", "s", "t", ".", "p", "r", "d">>

Foo == <<"F", "o", "o">>

Versions == {<<"1", ".", "0">>, <<"1", ".", "1">>}

\* untested recipes: the name parts, no SELFSERVICE_POLICY_NAME
UntestedEnvs ==
    [JSS_URL : {JssPrd, JssTst}, SP_URL : {"https://sp"},
     PKG_CATEGORY : {"Apps"}, NAME : {Foo}, MAJOR_VERSION : {None, <<"2">>},
     LANGUAGE : {None}, LICENSE : {None}, PLATFORM : {None},
     SELFSERVICE_POLICY_NAME : {None}, version : Versions,
     SP_EXECUTABLE_COMMAND : {"open"}, SP_PROCESS_NAME : {"Foo"},
     absent : {{}}]

\* prod recipes: SELFSERVICE_POLICY_NAME is the final policy name
ProdEnvs ==
    [JSS_URL : {JssPrd, JssTst, JssDev, JssBoth}, SP_URL : {"https://sp"},
     PKG_CATEGORY : {"Apps"}, NAME : {Foo}, MAJOR_VERSION : {None},
     LANGUAGE : {None}, LICENSE : {None}, PLATFORM : {None},
     SELFSERVICE_POLICY_NAME : {Foo}, version : Versions,
     SP_EXECUTABLE_COMMAND : {"open"}, SP_PROCESS_NAME : {"Foo"},
     absent : {{}}]

Envs == UntestedEnvs \cup ProdEnvs

\* input_variables: the inputs declared "required": True.  Processor.process()
\* raises ProcessorError("... requires <variable>") for a required variable
\* that is not in self.env, before it calls main().
RequiredInputs ==
    {"JSS_URL", "SP_URL", "SP_USER", "SP_PASS", "PKG_CATEGORY", "NAME",
     "version"}

\* the same inputs with one required key not in self.env (env.absent names
\* the missing keys; main() never gets to read them)
MissingEnvs ==
    {[e EXCEPT !.absent = {variable}] : e \in Envs, variable \in RequiredInputs}

\* self.env before the first run
NoEnv ==
    [JSS_URL |-> None, SP_URL |-> "", PKG_CATEGORY |-> "", NAME |-> None,
     MAJOR_VERSION |-> None, LANGUAGE |-> None, LICENSE |-> None,
     PLATFORM |-> None, SELFSERVICE_POLICY_NAME |-> None, version |-> None,
     SP_EXECUTABLE_COMMAND |-> "", SP_PROCESS_NAME |-> "", absent |-> {}]

(***************************************************************************)
(* State.                                                                  *)
(***************************************************************************)
VARIABLES
    lists,    \* list name -> the items of the list
    nextId,   \* list name -> the ID SharePoint gives the next new item
    pc,       \* where main() is: "idle", the line of the next call, "return", "done"
    env,      \* the inputs of the current (or last) run
    loc,      \* the results main() keeps in local variables
    pre,      \* the lists when the current run started
    calls,    \* the remote calls of the current run, in order
    runs,     \* runs completed
    repeat,   \* the current run has the inputs of the run before it
    faults,   \* this behaviour has runs that fail: a remote call may raise,
              \* a required input may be missing
    probe,    \* the arguments and the result of a helper applied on its own
    plan,     \* what each run of this behaviour may be, in order
    writer    \* the other writer to the lists: "none", "idle" or "done"

vars == <<lists, nextId, pc, env, loc, pre, calls, runs, repeat, faults, probe,
          plan, writer>>

\* no helper is applied on its own
NoProbe == [helper |-> "none"]

NoLocals ==
    [app_in_content_list |-> FALSE,
     is_app_autostage |-> FALSE,
     exact_policy_in_test_coordination_and_released |-> FALSE,
     exact_policy_in_test_coordination |-> FALSE,
     check |-> 0,
     app_in_test_coordination_tested_but_not_released |-> FALSE,
     app_in_test_coordination_not_released |-> FALSE,
     exact_policy_in_test_review |-> FALSE,
     app_in_test_review_not_released |-> FALSE,
     app_in_test_review_not_released_to_prd |-> FALSE]

\* lines 196, 209-219
final_policy_name ==
    IF env.SELFSERVICE_POLICY_NAME # None THEN env.SELFSERVICE_POLICY_NAME
    ELSE final_name(env.NAME, env.MAJOR_VERSION, env.LANGUAGE, env.LICENSE,
                    env.PLATFORM)

\* lines 222, 644
self_service_policy_name == self_service_name(final_policy_name, env.version)

version == Str(env.version)
F == Str(final_policy_name)
S == Str(self_service_policy_name)

IsPrd == Contains(env.JSS_URL, Prd)
IsTst == Contains(env.JSS_URL, Tst)

\* Fault: a deferred test does not count as work already done.
check_criteria_NoDeferred ==
    <<"In progress", "Done", "Waiting for other test manager">>
check_criteria ==
    <<"In progress", "Done", "Deferred", "Waiting for other test manager">>

(***************************************************************************)
(* The criteria dicts of main(), named after the line that starts them.    *)
(***************************************************************************)
criteria243 == << <<"Self Service Content", "Eq", F>> >>
criteria297 == << <<"Self Service Content", "Eq", F>>,
                  <<"Autostage", "Eq", "Yes">> >>
criteria313 == << <<"Self Service Content Name", "Eq", S>>,
                  <<"Release Completed", "Eq", "Yes">> >>
criteria337 == << <<"Self Service Content Name", "Eq", S>> >>
criteria347 == << <<"Self Service Content Name", "Eq", S>>,
                  <<"Status", "Neq", "Autostage">> >>
criteria374(check) == << <<"Self Service Content Name", "Eq", S>>,
                         <<"Release Completed", "Eq", "No">>,
                         <<"Status", "Eq", check>> >>
\* Fault: the unreleased entries of every product are selected.
criteria401_AnyProduct == << <<"Release Completed", "Eq", "No">>,
                             <<"Status", "Neq", "Obsolete">> >>
criteria401 == << <<"Final Content Name", "Eq", F>>,
                  <<"Release Completed", "Eq", "No">>,
                  <<"Status", "Neq", "Obsolete">> >>
criteria440 == << <<"Self Service Content Name", "Eq", S>> >>
criteria474 == << <<"Self Service Content Name", "Eq", S>> >>
\* Fault: the review entries of the product are selected whatever their
\* release state.
criteria546_AnyRelease == << <<"Final Content Name", "Eq", F>> >>
criteria546 == << <<"Final Content Name", "Eq", F>>,
                  <<"Release Completed TST", "Eq", "No">> >>
criteria569 == << <<"Final Content Name", "Eq", F>>,
                  <<"Release Completed PRD", "Eq", "No">> >>
criteria601 == << <<"Self Service Content Name", "Eq", S>> >>
criteria661 == << <<"Self Service Content Name", "Eq", S>> >>
autostage_criteria == << <<"Self Service Content", "Eq", F>>,
                         <<"Autostage", "Eq", "Yes">> >>
criteria757 == << <<"Self Service Content Name", "Eq", S>> >>
criteria836 == << <<"Self Service Content", "Eq", F>> >>

(***************************************************************************)
(* One remote call of main(): the step at line `at`, then on to `next`.    *)
(***************************************************************************)
\* the call returned
Logged(at, kind, listname) ==
    calls' = Append(calls, <<kind, listname, "ok", at>>)

\* Fault: the call that raised is issued again.
Raised_Retried(at, kind, listname) ==
    /\ pc' = pc
    /\ calls' = Append(calls, <<kind, listname, "raised", at>>)
    /\ loc' = loc
\* the call raised: nothing in main() catches the exception, which ends the
\* run where it is
Raised(at, kind, listname) ==
    /\ pc' = "failed"
    /\ calls' = Append(calls, <<kind, listname, "raised", at>>)
    /\ loc' = loc

MayRaise == IF faults THEN BOOLEAN ELSE {FALSE}

\* the row writes a helper has completed when it raises: none when its
\* GetListItems or its first UpdateListItems raises, at most all but one
WritesDone(items, criteria) ==
    LET n == Len(matching_ids(items, criteria))
    IN 0..(IF n = 0 THEN 0 ELSE n - 1)

\* Fault: main() goes on without a session.
Connect_Unchecked(at, next) ==
    /\ pc = at
    /\ \E raised \in MayRaise :
          calls' = Append(calls, <<"connect", "",
                                   IF raised THEN "raised" ELSE "ok", at>>)
    /\ pc' = next
    /\ UNCHANGED <<lists, nextId, env, loc, pre, runs, repeat, faults, probe,
                plan, writer>>
\* site = self.connect_sharepoint(sp_url, sp_user, sp_pass)
Connect(at, next) ==
    /\ pc = at
    /\ \E raised \in MayRaise :
          IF raised
          THEN Raised(at, "connect", "")
          ELSE /\ pc' = next
               /\ Logged(at, "connect", "")
               /\ loc' = loc
    /\ UNCHANGED <<lists, nextId, env, pre, runs, repeat, faults, probe,
                plan, writer>>

\* result = self.check_list(site, listname, criteria)
Check(at, listname, criteria, result, nextTrue, nextFalse) ==
    /\ pc = at
    /\ \E raised \in MayRaise :
          IF raised
          THEN Raised(at, "query", listname)
          ELSE LET found == check_list(lists[listname], criteria)
               IN /\ loc' = [loc EXCEPT ![result] = found]
                  /\ pc' = IF found THEN nextTrue ELSE nextFalse
                  /\ Logged(at, "query", listname)
    /\ UNCHANGED <<lists, nextId, env, pre, runs, repeat, faults, probe,
                plan, writer>>

Add(at, listname, list_key, list_value, next) ==
    /\ pc = at
    /\ \E raised \in MayRaise :
          IF raised
          THEN /\ Raised(at, "create", listname)
               /\ UNCHANGED <<lists, nextId>>
          ELSE /\ lists' = [lists EXCEPT ![listname] =
                               add_record(@, nextId[listname], listname,
                                          list_key, list_value)]
               /\ nextId' = [nextId EXCEPT ![listname] = @ + 1]
               /\ pc' = next
               /\ Logged(at, "create", listname)
               /\ loc' = loc
    /\ UNCHANGED <<env, pre, runs, repeat, faults, probe,
                plan, writer>>

Update(at, listname, list_key, list_value, criteria, next) ==
    /\ pc = at
    /\ \E raised \in MayRaise :
          IF raised
          THEN /\ \E done \in WritesDone(lists[listname], criteria) :
                     lists' = [lists EXCEPT ![listname] =
                                  update_record_raised(@, list_key, list_value,
                                                       criteria, done)]
               /\ Raised(at, "update", listname)
          ELSE /\ lists' = [lists EXCEPT ![listname] =
                               update_record(@, list_key, list_value, criteria)]
               /\ pc' = next
               /\ Logged(at, "update", listname)
               /\ loc' = loc
    /\ UNCHANGED <<nextId, env, pre, runs, repeat, faults, probe,
                plan, writer>>

Delete(at, listname, criteria, next) ==
    /\ pc = at
    /\ \E raised \in MayRaise :
          IF raised
          THEN /\ \E done \in WritesDone(lists[listname], criteria) :
                     lists' = [lists EXCEPT ![listname] =
                                  delete_record_raised(@, criteria, done)]
               /\ Raised(at, "delete", listname)
          ELSE /\ lists' = [lists EXCEPT ![listname] =
                               delete_record(@, criteria)]
               /\ pc' = next
               /\ Logged(at, "delete", listname)
               /\ loc' = loc
    /\ UNCHANGED <<nextId, env, pre, runs, repeat, faults, probe,
                plan, writer>>

(***************************************************************************)
(* The lists before the first run: empty, or holding what earlier runs and *)
(* the test managers left for version 1.0 of "Foo" (the test managers set  *)
(* Status by hand, the administrators set Autostage).                      *)
(***************************************************************************)
ManualStatus == {"In progress", "Deferred", "Waiting for other test manager"}

InitialContent ==
    {{}} \cup
    {{[NewItem(ContentList, 1, "Self Service Content", "Foo")
         EXCEPT !["Untested Version"] = "0.9", !["Category"] = "Old",
                !["Content Type"] = "Application", !["Autostage"] = a]} :
        a \in {"No", "Yes"}}

InitialCoordination ==
    {{}} \cup
    {{[NewItem(TestCoordination, 1, "Self Service Content Name",
               "Foo (Testing) v1.0")
         EXCEPT !["Final Content Name"] = "Foo",
                !["Release Completed"] = rc, !["Status"] = st]} :
        rc \in {"No"}, st \in ManualStatus}

InitialReview ==
    {{}} \cup
    {{[NewItem(TestReview, 1, "Self Service Content Name",
               "Foo (Testing) v1.0")
         EXCEPT !["Final Content Name"] = "Foo",
                !["Executable_Command"] = "old", !["Process_Name"] = "old"]}}

Boot(failing) ==
    /\ \E c \in InitialContent, t \in InitialCoordination, r \in InitialReview :
          /\ lists = (ContentList :> c) @@ (TestCoordination :> t)
                       @@ (TestReview :> r)
          /\ nextId = (ContentList :> Cardinality(c) + 1)
                        @@ (TestCoordination :> Cardinality(t) + 1)
                        @@ (TestReview :> Cardinality(r) + 1)
    /\ pc = "idle"
    /\ env = NoEnv
    /\ loc = NoLocals
    /\ pre = lists
    /\ calls = <<>>
    /\ runs = 0
    /\ repeat = FALSE
    /\ faults = failing
    /\ probe = NoProbe

\* the runs are any MaxRuns runs, and nothing else writes to the lists
AnyRuns == [i \in 1..MaxRuns |-> "any"]

\* every call returns and every required input is there
Init == Boot(FALSE) /\ plan = AnyRuns /\ writer = "none"

(***************************************************************************)
(* main(): lines 190-239 and 643-655, up to the connection.                *)
(***************************************************************************)
\* Fault: the untested section runs on every server.
main_entry_AnyTier(e) ==
    IF e.SELFSERVICE_POLICY_NAME = None THEN "A239" ELSE "B655"
\* main() up to its first remote call
main_entry(e) ==
    IF e.SELFSERVICE_POLICY_NAME = None
    THEN (IF Contains(e.JSS_URL, Prd) THEN "A239" ELSE "return")
    ELSE "B655"
\* Fault: main() is entered whatever inputs are missing.
process_UncheckedInputs(e) == main_entry(e)
\* the check of the required inputs, then main()
process(e) == IF e.absent \cap RequiredInputs # {} THEN "failed" ELSE main_entry(e)

\* the inputs a planned run may have: any, or those of a stage in the life
\* of the version of the run before it (the untested recipe on production,
\* then the prod recipe on test, then the prod recipe on production)
Choices(step) ==
    CASE step = "any" -> Envs
      [] step = "untested" ->
           {e \in UntestedEnvs : e.JSS_URL = JssPrd /\ e.MAJOR_VERSION = None}
      [] step = "test" ->
           {e \in ProdEnvs : e.JSS_URL = JssTst /\ e.version = env.version}
      [] step = "production" ->
           {e \in ProdEnvs : e.JSS_URL = JssPrd /\ e.version = env.version}

Start ==
    /\ pc \in {"idle", "done"}
    /\ runs < Len(plan)
    /\ \E e \in Choices(plan[runs + 1])
                \cup (IF faults THEN MissingEnvs ELSE {}) :
          /\ env' = e
          /\ repeat' = (pc = "done" /\ e = env)
          /\ pc' = process(e)
    /\ loc' = NoLocals
    /\ pre' = lists
    /\ calls' = <<>>
    /\ UNCHANGED <<lists, nextId, runs, faults, probe,
                plan, writer>>

Return ==
    /\ pc = "return"
    /\ pc' = "done"
    /\ runs' = runs + 1
    /\ UNCHANGED <<lists, nextId, env, loc, pre, calls, repeat, faults,
                   probe, plan, writer>>

(***************************************************************************)
(* Untested recipes, lines 209-640.                                        *)
(***************************************************************************)
A239 == Connect("A239", "A246")

\* Jamf Content List
\* Fault: the Content List entry is added whether or not one exists.
A246_AlwaysAdds ==
    Check("A246", ContentList, criteria243, "app_in_content_list",
          "A255", "A255")
A246 == Check("A246", ContentList, criteria243, "app_in_content_list",
              "A273", "A255")
A255 == Add("A255", ContentList, "Self Service Content", F, "A273")
A273 == Update("A273", ContentList, "Untested Version", version, criteria243,
               "A280")
\* Fault: the Content Type is not written.
A280_SkipsContentType ==
    Update("A280", ContentList, "Category", env.PKG_CATEGORY, criteria243,
           "A301")
A280 == Update("A280", ContentList, "Category", env.PKG_CATEGORY, criteria243,
               "A287")
\* Fault: the Autostage flag is not read.
A287_SkipsAutostageRead ==
    Update("A287", ContentList, "Content Type", "Application", criteria243,
           "A317")
A287 == Update("A287", ContentList, "Content Type", "Application",
               criteria243, "A301")
A301 == Check("A301", ContentList, criteria297, "is_app_autostage",
              "A317", "A317")

\* Jamf Test Coordination
\* Fault: a released entry is not looked for.
A317_SkipsReset ==
    Check("A317", TestCoordination, criteria313,
          "exact_policy_in_test_coordination_and_released", "A340", "A340")
A317 == Check("A317", TestCoordination, criteria313,
              "exact_policy_in_test_coordination_and_released", "A327", "A340")
\* Fault: the released entry is not set back.
A327_KeepsReleased ==
    Update("A327", TestCoordination, "Release Completed", "Yes", criteria313,
           "A340")
A327 == Update("A327", TestCoordination, "Release Completed", "No",
               criteria313, "A340")
A340 ==
    /\ pc = "A340"
    /\ \E raised \in MayRaise :
          IF raised
          THEN Raised("A340", "query", TestCoordination)
          ELSE LET found == check_list(lists[TestCoordination], criteria337)
               IN /\ loc' = [loc EXCEPT
                               !.exact_policy_in_test_coordination = found,
                               !.check = IF found /\ ~loc.is_app_autostage
                                         THEN 1 ELSE 0]
                  /\ pc' = IF found
                           THEN (IF loc.is_app_autostage THEN "A358"
                                 ELSE "A382")
                           ELSE "A406"
                  /\ Logged("A340", "query", TestCoordination)
    /\ UNCHANGED <<lists, nextId, env, pre, runs, repeat, faults, probe,
                plan, writer>>
A358 == Update("A358", TestCoordination, "Status", "Autostage", criteria347,
               "A477")

\* for check in check_criteria: lines 373-397
NextCheck == IF loc.check < Len(check_criteria) THEN "A382" ELSE "A477"
A382 ==
    /\ pc = "A382"
    /\ \E raised \in MayRaise :
          IF raised
          THEN Raised("A382", "query", TestCoordination)
          ELSE LET found == check_list(lists[TestCoordination],
                                       criteria374(check_criteria[loc.check]))
               IN /\ loc' = [loc EXCEPT
                       !.app_in_test_coordination_tested_but_not_released =
                           found,
                       !.check = IF found THEN @ ELSE @ + 1]
                  /\ pc' = IF found THEN "A391" ELSE NextCheck
                  /\ Logged("A382", "query", TestCoordination)
    /\ UNCHANGED <<lists, nextId, env, pre, runs, repeat, faults, probe,
                plan, writer>>
A391 ==
    /\ pc = "A391"
    /\ LET criteria == criteria374(check_criteria[loc.check])
       IN \E raised \in MayRaise :
             IF raised
             THEN /\ \E done \in WritesDone(lists[TestCoordination],
                                             criteria) :
                        lists' = [lists EXCEPT ![TestCoordination] =
                                     update_record_raised(@, "Status",
                                                          "Needs review",
                                                          criteria, done)]
                  /\ Raised("A391", "update", TestCoordination)
             ELSE /\ lists' = [lists EXCEPT ![TestCoordination] =
                                  update_record(@, "Status", "Needs review",
                                                criteria)]
                  /\ loc' = [loc EXCEPT !.check = @ + 1]
                  /\ pc' = NextCheck
                  /\ Logged("A391", "update", TestCoordination)
    /\ UNCHANGED <<nextId, env, pre, runs, repeat, faults, probe,
                plan, writer>>

\* Fault: the unreleased entries of the product are not marked Obsolete.
A406_SkipsObsolete ==
    Check("A406", TestCoordination, criteria401,
          "app_in_test_coordination_not_released", "A433", "A433")
A406 == Check("A406", TestCoordination, criteria401,
              "app_in_test_coordination_not_released", "A420", "A433")
A420 == Update("A420", TestCoordination, "Status", "Obsolete", criteria401,
               "A433")
A433 == Add("A433", TestCoordination, "Self Service Content Name", S, "A452")
\* Fault: the new entry of an Autostage product keeps the default Status.
A452_SkipsAutostage ==
    Update("A452", TestCoordination, "Final Content Name", F, criteria440,
           "A477")
A452 == Update("A452", TestCoordination, "Final Content Name", F, criteria440,
               IF loc.is_app_autostage THEN "A464" ELSE "A477")
A464 == Update("A464", TestCoordination, "Status", "Autostage", criteria440,
               "A477")

\* Jamf Test Review
\* Fault: the review branch is chosen by the result of the coordination check.
A477_UsesCoordinationResult ==
    /\ pc = "A477"
    /\ loc' = [loc EXCEPT !.exact_policy_in_test_review =
                             loc.exact_policy_in_test_coordination]
    /\ pc' = IF loc.exact_policy_in_test_coordination THEN "A492" ELSE "A550"
    /\ Logged("A477", "query", TestReview)
    /\ UNCHANGED <<lists, nextId, env, pre, runs, repeat, faults, probe,
                plan, writer>>
A477 == Check("A477", TestReview, criteria474, "exact_policy_in_test_review",
              "A492", "A550")
A492 == Update("A492", TestReview, "Release Completed TST", "No", criteria474,
               "A503")
\* Fault: Ready for Production is not set back.
A503_SkipsReady ==
    Update("A503", TestReview, "Release Completed PRD", "No", criteria474,
           "A525")
A503 == Update("A503", TestReview, "Release Completed PRD", "No", criteria474,
               "A514")
A514 == Update("A514", TestReview, "Ready for Production", "No", criteria474,
               "A525")
A525 == Update("A525", TestReview, "Executable_Command",
               env.SP_EXECUTABLE_COMMAND, criteria474, "A536")
\* Fault: the branch for an existing review entry falls through into the
\* branch that creates one.
A536_FallsThrough ==
    Update("A536", TestReview, "Process_Name", env.SP_PROCESS_NAME,
           criteria474, "A550")
A536 == Update("A536", TestReview, "Process_Name", env.SP_PROCESS_NAME,
               criteria474, "return")
A550 == Check("A550", TestReview, criteria546,
              "app_in_test_review_not_released", "A562", "A573")
A562 == Delete("A562", TestReview, criteria546, "A595")
\* Fault: the entries not released to PRD are left as they are.
A573_NeverSkips ==
    Check("A573", TestReview, criteria569,
          "app_in_test_review_not_released_to_prd", "A595", "A595")
A573 == Check("A573", TestReview, criteria569,
              "app_in_test_review_not_released_to_prd", "A583", "A595")
A583 == Update("A583", TestReview, "Release Completed PRD", "Skipped",
               criteria569, "A595")
A595 == Add("A595", TestReview, "Self Service Content Name", S, "A612")
\* Fault: the item name is written where the final policy name belongs.
A612_WritesItemName ==
    Update("A612", TestReview, "Final Content Name", S, criteria601, "A623")
A612 == Update("A612", TestReview, "Final Content Name", F, criteria601,
               "A623")
A623 == Update("A623", TestReview, "Executable_Command",
               env.SP_EXECUTABLE_COMMAND, criteria601, "A634")
A634 == Update("A634", TestReview, "Process_Name", env.SP_PROCESS_NAME,
               criteria601, "return")

(***************************************************************************)
(* Prod recipes, lines 643-890.                                            *)
(***************************************************************************)
B655 == Connect("B655", "B664")

\* Jamf Test Coordination
\* Fault: the release is recorded on every tier.
ReleaseOnEveryTier == "B706"
AfterCoordinationUpsert == IF IsPrd THEN "B706" ELSE "B759"
\* Fault: the entry is added whether or not one exists.
B664_AlwaysAdds ==
    Check("B664", TestCoordination, criteria661,
          "exact_policy_in_test_coordination", "B679", "B679")
B664 == Check("B664", TestCoordination, criteria661,
              "exact_policy_in_test_coordination",
              AfterCoordinationUpsert, "B679")
B679 == Add("B679", TestCoordination, "Self Service Content Name", S, "B691")
B691 == Update("B691", TestCoordination, "Final Content Name", F, criteria661,
               AfterCoordinationUpsert)
B706 == Check("B706", ContentList, autostage_criteria, "is_app_autostage",
              "B722", "B722")
\* Fault: the Autostage test is inverted.
B722_Inverted ==
    Update("B722", TestCoordination, "Release Completed", "Yes", criteria661,
           IF loc.is_app_autostage THEN "B746" ELSE "B734")
B722 == Update("B722", TestCoordination, "Release Completed", "Yes",
               criteria661,
               IF loc.is_app_autostage THEN "B734" ELSE "B746")
B734 == Update("B734", TestCoordination, "Status", "Autostage", criteria661,
               "B759")
B746 == Update("B746", TestCoordination, "Status", "Done", criteria661,
               "B759")

\* Jamf Test Review
AfterReviewUpsert ==
    IF IsTst THEN "B798" ELSE IF IsPrd THEN "B823" ELSE "return"
AfterReviewRelease == IF IsPrd THEN "B838" ELSE "return"
B759 == Check("B759", TestReview, criteria757, "exact_policy_in_test_review",
              AfterReviewUpsert, "B773")
B773 == Add("B773", TestReview, "Self Service Content Name", S, "B785")
B785 == Update("B785", TestReview, "Final Content Name", F, criteria757,
               AfterReviewUpsert)
\* Fault: the release to TST does not make the entry ready for production.
B798_SkipsReady ==
    Update("B798", TestReview, "Release Completed TST", "Yes", criteria757,
           AfterReviewRelease)
B798 == Update("B798", TestReview, "Release Completed TST", "Yes",
               criteria757, "B810")
B810 == Update("B810", TestReview, "Ready for Production", "Yes", criteria757,
               AfterReviewRelease)
B823 == Update("B823", TestReview, "Release Completed PRD", "Yes",
               criteria757, AfterReviewRelease)

\* Jamf Content List (PRD only)
B838 == Check("B838", ContentList, criteria836, "app_in_content_list",
              "B863", "B847")
\* Fault: the Content List entry is keyed by the item name.
B847_AddsItemName ==
    Add("B847", ContentList, "Self Service Content", S, "B863")
B847 == Add("B847", ContentList, "Self Service Content", F, "B863")
\* Fault: the wrong column is cleared.
B863_ClearsAutostage ==
    Update("B863", ContentList, "Autostage", "", criteria836, "B876")
B863 == Update("B863", ContentList, "Untested Version", "", criteria836,
               "B876")
B876 == Update("B876", ContentList, "Prod. Version", version, criteria836,
               "B883")
B883 == Update("B883", ContentList, "Test Report",
               test_report_url(env.SP_URL, self_service_policy_name)
                 \o ", Test Report",
               criteria836, "return")

UntestedSection ==
    \/ A239 \/ A246 \/ A255 \/ A273 \/ A280 \/ A287 \/ A301
    \/ A317 \/ A327 \/ A340 \/ A358 \/ A382 \/ A391
    \/ A406 \/ A420 \/ A433 \/ A452 \/ A464
    \/ A477 \/ A492 \/ A503 \/ A514 \/ A525 \/ A536
    \/ A550 \/ A562 \/ A573 \/ A583 \/ A595 \/ A612 \/ A623 \/ A634

ProdSection ==
    \/ B655 \/ B664 \/ B679 \/ B691 \/ B706 \/ B722 \/ B734 \/ B746
    \/ B759 \/ B773 \/ B785 \/ B798 \/ B810 \/ B823
    \/ B838 \/ B847 \/ B863 \/ B876 \/ B883

Next == Start \/ UntestedSection \/ ProdSection \/ Return

Spec == Init /\ [][Next]_vars

\* the same runs, where a remote call may raise and a required input may be
\* missing
InitFail == Boot(TRUE) /\ plan = AnyRuns /\ writer = "none"
SpecFail == InitFail /\ [][Next]_vars

(***************************************************************************)
(* Vocabulary of the properties.                                           *)
(***************************************************************************)
Returned == pc = "done"
\* the run went through the untested section / the prod section
FlowA == env.SELFSERVICE_POLICY_NAME = None /\ IsPrd
FlowB == env.SELFSERVICE_POLICY_NAME # None
InFlowA == FlowA /\ pc \notin {"idle"}
\* the tier of the run: the JSS URL names one server kind, or none
ProductionTier == IsPrd /\ ~IsTst
TestTier == IsTst /\ ~IsPrd

Content == lists[ContentList]
Coordination == lists[TestCoordination]
Review == lists[TestReview]

\* the items the current run created
Created(listname) ==
    {x \in lists[listname] : \A y \in pre[listname] : y["ID"] # x["ID"]}

\* a coordination entry that is neither released nor obsolete; a review
\* entry that is released on neither tier (and so not skipped either)
OpenCoordination(x) ==
    x["Release Completed"] = "No" /\ x["Status"] # "Obsolete"
OpenReview(x) ==
    x["Release Completed TST"] = "No" /\ x["Release Completed PRD"] = "No"

\* the names as the documentation writes them, for the inputs of the model
ExpectedFinal ==
    IF env.SELFSERVICE_POLICY_NAME # None THEN "Foo"
    ELSE IF env.MAJOR_VERSION = None THEN "Foo" ELSE "Foo 2"
ExpectedVersion == IF env.version = <<"1", ".", "0">> THEN "1.0" ELSE "1.1"
ExpectedItem == ExpectedFinal \o " (Testing) v" \o ExpectedVersion

AutostageSet(content) ==
    \E c \in content :
        c["Self Service Content"] = ExpectedFinal /\ c["Autostage"] = "Yes"

(***************************************************************************)
(* C1.  As stated: when a Flow A run has returned, exactly one Test        *)
(* Coordination entry and exactly one Test Review entry of the run's final *)
(* policy name are unreleased, and every other entry of that name is in a  *)
(* terminal state (read in the claim's favour: Obsolete entries, which     *)
(* keep Release Completed = No, do not count).                             *)
(***************************************************************************)
C1_Original ==
    (Returned /\ FlowA) =>
        /\ Cardinality({x \in Coordination :
               x["Final Content Name"] = ExpectedFinal
               /\ OpenCoordination(x)}) = 1
        /\ Cardinality({x \in Review :
               x["Final Content Name"] = ExpectedFinal
               /\ OpenReview(x)}) = 1

\* C1, amended.  When a Flow A run has returned, exactly one Test
\* Coordination entry is keyed by the run's item name and it has Release
\* Completed = No, and exactly one Test Review entry is keyed by it and has
\* Release Completed TST = No and Release Completed PRD = No; both name the
\* run's final policy name.  (Entries of other versions need not be
\* terminal.)
C1_RunEntriesUnreleased ==
    (Returned /\ FlowA) =>
        /\ Cardinality({x \in Coordination :
               x["Self Service Content Name"] = ExpectedItem}) = 1
        /\ \A x \in Coordination :
               x["Self Service Content Name"] = ExpectedItem =>
                   /\ x["Release Completed"] = "No"
                   /\ x["Final Content Name"] = ExpectedFinal
        /\ Cardinality({x \in Review :
               x["Self Service Content Name"] = ExpectedItem}) = 1
        /\ \A x \in Review :
               x["Self Service Content Name"] = ExpectedItem =>
                   /\ x["Release Completed TST"] = "No"
                   /\ x["Release Completed PRD"] = "No"
                   /\ x["Final Content Name"] = ExpectedFinal

\* a Flow A run has returned that found its coordination entry released and
\* its review entry released, and another version's entries beside them
C1_Witness ==
    /\ Returned /\ FlowA
    /\ loc.exact_policy_in_test_coordination_and_released
    /\ loc.exact_policy_in_test_review
    /\ \E y \in pre[TestReview] :
          /\ y["Self Service Content Name"] = ExpectedItem
          /\ y["Release Completed PRD"] = "Yes"
    /\ \E x \in Coordination :
          /\ x["Final Content Name"] = ExpectedFinal
          /\ x["Self Service Content Name"] # ExpectedItem

(***************************************************************************)
(* C2.  As stated: between runs, at most one Test Coordination entry and   *)
(* at most one Test Review entry per final policy name is non-terminal.    *)
(***************************************************************************)
FinalNames ==
    {x["Final Content Name"] : x \in Coordination \cup Review}

C2_Original ==
    pc \in {"idle", "done"} =>
        \A f \in FinalNames :
            /\ Cardinality({x \in Coordination :
                   x["Final Content Name"] = f /\ OpenCoordination(x)}) <= 1
            /\ Cardinality({x \in Review :
                   x["Final Content Name"] = f /\ OpenReview(x)}) <= 1

\* C2, amended.  When a Flow A run that created the Test Coordination entry
\* of its version has returned, that entry is the only Test Coordination
\* entry of the product that is unreleased and not Obsolete; when it created
\* the Test Review entry, that entry is the only Test Review entry of the
\* product with Release Completed TST = No.
C2_CreatedEntryIsTheOpenOne ==
    (Returned /\ FlowA) =>
        /\ ~loc.exact_policy_in_test_coordination =>
              \A x \in Coordination :
                  (x["Final Content Name"] = ExpectedFinal
                   /\ OpenCoordination(x)) => x \in Created(TestCoordination)
        /\ ~loc.exact_policy_in_test_review =>
              \A x \in Review :
                  (x["Final Content Name"] = ExpectedFinal
                   /\ x["Release Completed TST"] = "No")
                      => x \in Created(TestReview)
        /\ Cardinality(Created(TestCoordination)) <= 1
        /\ Cardinality(Created(TestReview)) <= 1

\* a Flow A run has returned that created both entries where an unreleased
\* coordination entry and an unreleased review entry of another version of
\* the product existed
C2_Witness ==
    /\ Returned /\ FlowA
    /\ Created(TestCoordination) # {} /\ Created(TestReview) # {}
    /\ \E x \in pre[TestCoordination] :
          x["Final Content Name"] = ExpectedFinal /\ OpenCoordination(x)
    /\ \E x \in pre[TestReview] :
          x["Final Content Name"] = ExpectedFinal /\ OpenReview(x)

(***************************************************************************)
(* C3.  Runs that do not overlap keep the keys unique: no two Content List *)
(* items share a 'Self Service Content', and no two Test Coordination      *)
(* (Test Review) items share a 'Self Service Content Name', in any state.  *)
(***************************************************************************)
UniqueIn(items, column) ==
    \A x \in items, y \in items : x[column] = y[column] => x = y

C3_KeysStayUnique ==
    /\ UniqueIn(Content, "Self Service Content")
    /\ UniqueIn(Coordination, "Self Service Content Name")
    /\ UniqueIn(Review, "Self Service Content Name")

\* a second run for keys that the lists already hold has returned
C3_Witness ==
    /\ Returned /\ runs = 2
    /\ loc.app_in_content_list
    /\ loc.exact_policy_in_test_coordination
    /\ loc.exact_policy_in_test_review
    /\ Cardinality(Coordination) >= 2

(***************************************************************************)
(* C4.  As stated: when a run of either flow on any tier has returned,     *)
(* every Test Coordination and Test Review entry it created names, in      *)
(* 'Final Content Name', the key of a Content List entry.                  *)
(***************************************************************************)
Referenced(x) ==
    \E c \in Content : c["Self Service Content"] = x["Final Content Name"]

CreatedEntriesReferenced ==
    \A x \in Created(TestCoordination) \cup Created(TestReview) :
        Referenced(x)

C4_Original == Returned => CreatedEntriesReferenced

\* C4, amended.  The same, for the runs that write the Content List: Flow A,
\* and Flow B with 'prd' in the JSS URL.  (Flow B elsewhere creates the
\* entries without looking at the Content List.)
C4_ReferencedWhereContentIsWritten ==
    (Returned /\ (FlowA \/ (FlowB /\ IsPrd))) => CreatedEntriesReferenced

\* a prod run on production has returned that created the two entries and
\* the Content List entry they name
C4_Witness ==
    /\ Returned /\ FlowB /\ IsPrd
    /\ Created(TestCoordination) # {} /\ Created(TestReview) # {}
    /\ Created(ContentList) # {}

C6_FlowAOnEmptyLists ==
    (Returned /\ FlowA /\ \A l \in ListNames : pre[l] = {}) =>
        /\ Cardinality(Content) = 1
        /\ \A c \in Content :
              /\ c["Self Service Content"] = ExpectedFinal
              /\ c["Untested Version"] = ExpectedVersion
              /\ c["Category"] = env.PKG_CATEGORY
              /\ c["Content Type"] = "Application"
        /\ Cardinality(Coordination) = 1
        /\ \A x \in Coordination :
              /\ x["Self Service Content Name"] = ExpectedItem
              /\ x["Final Content Name"] = ExpectedFinal
        /\ Cardinality(Review) = 1
        /\ \A x \in Review :
              /\ x["Self Service Content Name"] = ExpectedItem
              /\ x["Final Content Name"] = ExpectedFinal

\* a Flow A run for "Foo 2", version 1.1, on empty lists has returned
C6_Witness ==
    /\ Returned /\ FlowA /\ \A l \in ListNames : pre[l] = {}
    /\ ExpectedItem = "Foo 2 (Testing) v1.1"

(***************************************************************************)
(* C7.  Superseding a version in Flow A.  When no Test Coordination entry  *)
(* is keyed by the run's item name, every entry of the product that was    *)
(* unreleased and not Obsolete when the run started is Obsolete from the   *)
(* moment the run's new entry exists, and when the run has returned the    *)
(* new entry names the final policy name and has Status = Autostage        *)
(* exactly if the product is set to Autostage.                             *)
(***************************************************************************)
SupersededAreObsolete ==
    \A y \in pre[TestCoordination] :
        (y["Final Content Name"] = ExpectedFinal /\ OpenCoordination(y)) =>
            \E x \in Coordination :
                x = [y EXCEPT !["Status"] = "Obsolete"]

C7_ObsoleteBeforeCreate ==
    /\ (InFlowA /\ Created(TestCoordination) # {}) => SupersededAreObsolete
    /\ (Returned /\ FlowA /\ ~loc.exact_policy_in_test_coordination) =>
          /\ SupersededAreObsolete
          /\ Created(TestCoordination) # {}
          /\ \A x \in Created(TestCoordination) :
                /\ x["Self Service Content Name"] = ExpectedItem
                /\ x["Final Content Name"] = ExpectedFinal
                /\ x["Status"] = "Autostage" <=> AutostageSet(Content)

\* a Flow A run has returned that made an unreleased entry of version 1.0
\* Obsolete and created the entry of version 1.1, with Autostage set
C7_Witness ==
    /\ Returned /\ FlowA
    /\ loc.app_in_test_coordination_not_released
    /\ AutostageSet(Content)
    /\ \E x \in Created(TestCoordination) : x["Status"] = "Autostage"
    /\ \E x \in Coordination : x["Status"] = "Obsolete"

(***************************************************************************)
(* C8.  Flow B on the Test tier.  When the run has returned, the Test      *)
(* Review entry keyed by the item name has Release Completed TST = Yes and *)
(* Ready for Production = Yes and the Release Completed PRD it had before; *)
(* Release Completed and Status of every Test Coordination entry, and the  *)
(* Content List, are as before the run.                                    *)
(***************************************************************************)
C8_FlowBOnTest ==
    (Returned /\ FlowB /\ TestTier) =>
        /\ \E x \in Review : x["Self Service Content Name"] = ExpectedItem
        /\ \A x \in Review :
              x["Self Service Content Name"] = ExpectedItem =>
                  /\ x["Release Completed TST"] = "Yes"
                  /\ x["Ready for Production"] = "Yes"
                  /\ \A y \in pre[TestReview] :
                        y["ID"] = x["ID"] =>
                            x["Release Completed PRD"]
                                = y["Release Completed PRD"]
                  /\ x \in Created(TestReview) =>
                        x["Release Completed PRD"]
                            = ColumnDefault("Release Completed PRD")
        /\ pre[TestCoordination] \subseteq Coordination
        /\ \A x \in Created(TestCoordination) :
              /\ x["Release Completed"] = ColumnDefault("Release Completed")
              /\ x["Status"] = ColumnDefault("Status")
        /\ Content = pre[ContentList]

\* a prod run on the test server has returned that found the review entry
\* already released on production, and a coordination entry
C8_Witness ==
    /\ Returned /\ FlowB /\ TestTier
    /\ loc.exact_policy_in_test_review
    /\ loc.exact_policy_in_test_coordination
    /\ \E y \in pre[TestReview] :
          /\ y["Self Service Content Name"] = ExpectedItem
          /\ y["Release Completed PRD"] = "Yes"
          /\ y["Release Completed TST"] = "No"

(***************************************************************************)
(* C9.  Flow B on the Production tier.  When the run has returned, the     *)
(* Test Coordination entry keyed by the item name has Release Completed =  *)
(* Yes, and Status = Autostage if the Content List had the product set to  *)
(* Autostage when the run read it, Status = Done otherwise.                *)
(***************************************************************************)
C9_FlowBOnProduction ==
    (Returned /\ FlowB /\ IsPrd) =>
        /\ \E x \in Coordination :
              x["Self Service Content Name"] = ExpectedItem
        /\ \A x \in Coordination :
              x["Self Service Content Name"] = ExpectedItem =>
                  /\ x["Release Completed"] = "Yes"
                  /\ x["Status"] = IF AutostageSet(pre[ContentList])
                                   THEN "Autostage" ELSE "Done"

\* a prod run on production has returned for a product set to Autostage
\* whose coordination entry a test manager had in progress
C9_Witness ==
    /\ Returned /\ FlowB /\ ProductionTier
    /\ AutostageSet(pre[ContentList])
    /\ \E y \in pre[TestCoordination] :
          /\ y["Self Service Content Name"] = ExpectedItem
          /\ y["Status"] = "In progress"

(***************************************************************************)
(* C10.  Flow B writes the Content List on production only.  There, when   *)
(* the run has returned, the entry keyed by the final policy name has an   *)
(* empty Untested Version, Prod. Version = version and the test report     *)
(* link; elsewhere the run made no create, update or delete on the list.   *)
(***************************************************************************)
ExpectedTestReport ==
    IF ExpectedVersion = "1.0"
    THEN "https://sp/Lists/Jamf_Item_Test/DispForm.aspx?Title=Foo+%28Testing%29+v1.0, Test Report"
    ELSE "https://sp/Lists/Jamf_Item_Test/DispForm.aspx?Title=Foo+%28Testing%29+v1.1, Test Report"

C10_ContentListOnProductionOnly ==
    /\ (Returned /\ FlowB /\ IsPrd) =>
          /\ \E c \in Content : c["Self Service Content"] = ExpectedFinal
          /\ \A c \in Content :
                c["Self Service Content"] = ExpectedFinal =>
                    /\ c["Untested Version"] = ""
                    /\ c["Prod. Version"] = ExpectedVersion
                    /\ c["Test Report"] = ExpectedTestReport
    /\ (FlowB /\ ~IsPrd) =>
          /\ Content = pre[ContentList]
          /\ \A i \in 1..Len(calls) :
                calls[i][2] = ContentList => calls[i][1] = "query"

\* a prod run on production has returned that created the Content List
\* entry, after one on the test server that left the list alone
C10_Witness ==
    /\ Returned /\ FlowB /\ ProductionTier
    /\ ~loc.app_in_content_list
    /\ runs = 2
    /\ \E x \in Review : x["Release Completed TST"] = "Yes"

(***************************************************************************)
(* Runs that fail.                                                         *)
(***************************************************************************)
HasRaised(log) == \E i \in 1..Len(log) : log[i][3] = "raised"

\* what the call that raised in this step may have left behind: nothing in
\* another list, no new item, of an update the rows it had written (one
\* column), of a delete the rows it had removed
CompletedWritesOnly ==
    LET call == calls'[Len(calls')]
    IN /\ nextId' = nextId
       /\ \A listname \in ListNames \ {call[2]} :
             lists'[listname] = lists[listname]
       /\ call[1] \in {"connect", "query", "create"} => lists' = lists
       /\ call[1] = "update" =>
             /\ {x["ID"] : x \in lists'[call[2]]}
                   = {x["ID"] : x \in lists[call[2]]}
             /\ \E column \in Columns(call[2]) :
                   \A y \in lists'[call[2]] :
                      \E x \in lists[call[2]] :
                         \A c \in DOMAIN x : c # column => y[c] = x[c]
       /\ call[1] = "delete" => lists'[call[2]] \subseteq lists[call[2]]

\* C11: a remote call that raises ends the run: it is the last call of the
\* run (no later call, no retry), and the lists stay as the calls before it
\* and the writes it had completed left them: nothing is rolled back.
C11_FailStop ==
    [][/\ ~HasRaised(calls)
       /\ HasRaised(calls') =>
             /\ pc' = "failed"
             /\ calls' = Append(calls, calls'[Len(calls')])
             /\ CompletedWritesOnly
             /\ lists # pre => lists' # pre]_vars

\* a run that failed in an update, after it had changed the lists
C11_Witness ==
    /\ pc = "failed"
    /\ HasRaised(calls)
    /\ calls[Len(calls)][1] = "update"
    /\ Len(calls) > 3
    /\ lists # pre

\* C12: a run that lacks a required input fails before it makes any remote
\* call, whichever flow its other inputs select.
C12_MissingInputFailsFirst ==
    env.absent # {} => (pc = "failed" /\ calls = <<>> /\ lists = pre)

\* an untested recipe on production without PKG_CATEGORY, on lists that
\* have content
C12_Witness ==
    /\ env.absent = {"PKG_CATEGORY"}
    /\ main_entry(env) = "A239"
    /\ pc = "failed"
    /\ lists[ContentList] # {}

\* C13: every query and every mutation of a run comes after the session was
\* established, and a run whose connection fails stops there: it has made
\* no other call and the lists are as they were.
C13_ConnectFirst ==
    /\ \A i \in 1..Len(calls) :
          calls[i][1] # "connect" =>
             \E j \in 1..(i - 1) :
                calls[j][1] = "connect" /\ calls[j][3] = "ok"
    /\ \A i \in 1..Len(calls) :
          (calls[i][1] = "connect" /\ calls[i][3] = "raised") =>
             (pc = "failed" /\ Len(calls) = 1 /\ lists = pre)

\* a prod recipe whose connection failed, on lists that have entries
C13_Witness ==
    /\ pc = "failed"
    /\ calls = <<<<"connect", "", "raised", "B655">>>>
    /\ lists[TestCoordination] # {}

\* the items of a list that this step deletes
Removed(listname) ==
    {x \in lists[listname] : \A y \in lists'[listname] : y["ID"] # x["ID"]}

\* C14: no step deletes a Content List or a Test Coordination entry; a step
\* deletes a Test Review entry only in Flow A, only when the list has no
\* entry of the run's Self Service Content Name, and only an entry of the
\* run's Final Content Name that is not released to TST.
C14_OnlySupersededReviewDeleted ==
    [][/\ Removed(ContentList) = {}
       /\ Removed(TestCoordination) = {}
       /\ \A x \in Removed(TestReview) :
             /\ FlowA
             /\ ~ \E y \in Review :
                    y["Self Service Content Name"] = ExpectedItem
             /\ x["Final Content Name"] = ExpectedFinal
             /\ x["Release Completed TST"] = "No"]_vars

\* a Flow A run has deleted a review entry and created the one of its version
C14_Witness ==
    /\ InFlowA
    /\ \E y \in pre[TestReview] : \A x \in Review : x["ID"] # y["ID"]
    /\ Created(TestReview) # {}

(***************************************************************************)
(* The helpers on their own: check_list on one item, for every criteria    *)
(* dict of up to MaxCriteria entries, and the final policy name of the     *)
(* untested section, for every choice of its parts.                        *)
(***************************************************************************)
ProbeColumns == Columns(TestCoordination)
ProbeValues(column) ==
    CASE column = "Self Service Content Name" ->
           {"Foo (Testing) v1.0", "Foo (Testing) v1.1"}
      [] column = "Final Content Name" -> {"Foo", "Bar"}
      [] column = "Release Completed" -> {"Yes", "No"}
      [] column = "Status" -> {"Done", "Obsolete"}

ProbeEntries ==
    UNION {{<<column, operand, value>> :
               operand \in {"Eq", "Neq"}, value \in ProbeValues(column)} :
           column \in ProbeColumns}

\* a dict has each key once
CriteriaDicts ==
    {criteria \in UNION {[1..n -> ProbeEntries] : n \in 1..MaxCriteria} :
        \A i, j \in 1..Len(criteria) :
            criteria[i][1] = criteria[j][1] => i = j}

ProbeItems ==
    {[c \in ProbeColumns \cup {"ID"} |-> IF c = "ID" THEN 1 ELSE f[c]] :
        f \in {g \in [ProbeColumns ->
                         UNION {ProbeValues(c) : c \in ProbeColumns}] :
                  \A c \in ProbeColumns : g[c] \in ProbeValues(c)}}

ProbeParts ==
    [name : {Foo}, major_version : {None, <<"2">>, <<"1", "0">>},
     policy_language : {None, <<"E", "N">>, <<"D", "E">>},
     policy_license : {None, <<"E", "D", "U">>, <<"F">>},
     platform : {None, <<"A", "R", "M">>, <<"X">>}]

\* the lists delete_record is applied to on its own: items 1..n that differ
\* in the Final Content Name and in Release Completed, and criteria dicts
\* of one or two entries on these columns (lines 547-549 have two)
DeleteColumns == {"Final Content Name", "Release Completed"}

DeleteCriteria ==
    {criteria \in CriteriaDicts :
        /\ Len(criteria) <= 2
        /\ \A i \in 1..Len(criteria) : criteria[i][1] \in DeleteColumns}

DeleteItem(id, name, released) ==
    [c \in ProbeColumns \cup {"ID"} |->
        CASE c = "ID" -> id
          [] c = "Self Service Content Name" -> "Foo (Testing) v1.0"
          [] c = "Final Content Name" -> name
          [] c = "Release Completed" -> released
          [] c = "Status" -> "Done"]

DeleteLists ==
    UNION {{{DeleteItem(id, name[id], released[id]) : id \in 1..n} :
               name \in [1..n -> ProbeValues("Final Content Name")],
               released \in [1..n -> ProbeValues("Release Completed")]} :
           n \in 0..MaxItems}

model == <<lists, nextId, pc, env, loc, pre, calls, runs, repeat, faults,
           plan, writer>>

InitHelpers ==
    /\ lists = [listname \in ListNames |-> {}]
    /\ nextId = [listname \in ListNames |-> 1]
    /\ pc = "idle"
    /\ env = NoEnv
    /\ loc = NoLocals
    /\ pre = lists
    /\ calls = <<>>
    /\ runs = 0
    /\ repeat = FALSE
    /\ faults = FALSE
    /\ plan = <<>>
    /\ writer = "none"
    /\ \/ \E criteria \in CriteriaDicts, item \in ProbeItems :
             probe = [helper |-> "check_list", at |-> "build_query",
                      criteria |-> criteria, item |-> item,
                      fields |-> <<>>, query |-> [Where |-> <<>>],
                      found |-> FALSE]
       \/ \E parts \in ProbeParts :
             probe = [helper |-> "final_policy_name", at |-> "name",
                      parts |-> parts, final_policy_name |-> <<>>]
       \/ \E criteria \in DeleteCriteria, items \in DeleteLists :
             probe = [helper |-> "delete_record", at |-> "GetListItems",
                      criteria |-> criteria, before |-> items,
                      items |-> items, rows |-> <<>>, delete_data |-> <<>>,
                      requests |-> <<>>]

\* fields, query = self.build_query(criteria)
ProbeBuildQuery ==
    /\ probe.helper = "check_list"
    /\ probe.at = "build_query"
    /\ LET built == build_query(probe.criteria)
       IN probe' = [probe EXCEPT !.at = "GetListItems",
                                 !.fields = built.fields,
                                 !.query = built.query]
    /\ UNCHANGED model

\* if sp_list.GetListItems(fields=fields, query=query): return True
ProbeGetListItems ==
    /\ probe.helper = "check_list"
    /\ probe.at = "GetListItems"
    /\ probe' = [probe EXCEPT
                    !.at = "return",
                    !.found = GetListItems({probe.item}, probe.fields,
                                           probe.query) # {}]
    /\ UNCHANGED model

\* lines 210-219
ProbeFinalName ==
    /\ probe.helper = "final_policy_name"
    /\ probe.at = "name"
    /\ probe' = [probe EXCEPT
                    !.at = "return",
                    !.final_policy_name =
                        final_name(probe.parts.name,
                                   probe.parts.major_version,
                                   probe.parts.policy_language,
                                   probe.parts.policy_license,
                                   probe.parts.platform)]
    /\ UNCHANGED model

\* lines 175-178: the query, and the rows the loop will go through
ProbeDeleteRows ==
    /\ probe.helper = "delete_record"
    /\ probe.at = "GetListItems"
    /\ LET rows == matching_ids(probe.items, probe.criteria)
       IN probe' = [probe EXCEPT
                       !.rows = rows,
                       !.at = IF rows = <<>> THEN "return"
                              ELSE "UpdateListItems"]
    /\ UNCHANGED model

\* lines 179-180, one turn of the loop: the ID of the row is appended to
\* delete_data, and delete_data is sent as one delete request
ProbeDeleteRequest ==
    /\ probe.helper = "delete_record"
    /\ probe.at = "UpdateListItems"
    /\ LET delete_data == Append(probe.delete_data, Head(probe.rows))
       IN probe' = [probe EXCEPT
                       !.delete_data = delete_data,
                       !.requests = Append(@, delete_data),
                       !.items = DeleteRows(@, <<delete_data>>),
                       !.rows = Tail(@),
                       !.at = IF Tail(probe.rows) = <<>> THEN "return"
                              ELSE "UpdateListItems"]
    /\ UNCHANGED model

NextHelpers ==
    \/ ProbeBuildQuery
    \/ ProbeGetListItems
    \/ ProbeFinalName
    \/ ProbeDeleteRows
    \/ ProbeDeleteRequest
SpecHelpers == InitHelpers /\ [][NextHelpers]_vars

\* the item satisfies the comparison of one entry of a criteria dict
Satisfies(entry, item) ==
    IF entry[2] = "Eq" THEN item[entry[1]] = entry[3]
    ELSE item[entry[1]] # entry[3]

\* C15: for a criteria dict of N >= 1 entries, the query of build_query
\* finds an item exactly when the item satisfies all N comparisons, and
\* the fields asked for are ID, then the N keys in the order of the dict.
C15_StrictAnd ==
    (probe.helper = "check_list" /\ probe.at = "return") =>
       LET criteria == probe.criteria
           N        == Len(criteria)
       IN /\ probe.found =
                (\A i \in 1..N : Satisfies(criteria[i], probe.item))
          /\ Len(probe.fields) = N + 1
          /\ probe.fields[1] = "ID"
          /\ \A i \in 1..N : probe.fields[i + 1] = criteria[i][1]

\* three criteria, and an item that fails only the first of them
C15_Witness ==
    /\ probe.helper = "check_list"
    /\ probe.at = "return"
    /\ Len(probe.criteria) = 3
    /\ ~probe.found
    /\ ~Satisfies(probe.criteria[1], probe.item)
    /\ Satisfies(probe.criteria[2], probe.item)
    /\ Satisfies(probe.criteria[3], probe.item)

\* the words of a text: what stands between its spaces
RECURSIVE Words(_, _)
Words(s, word) ==
    IF s = <<>> THEN <<word>>
    ELSE IF Head(s) = " " THEN <<word>> \o Words(Tail(s), <<>>)
    ELSE Words(Tail(s), Append(word, Head(s)))

Supplied(part) == part # <<>>

\* C16: the final policy name of the untested section is the name, then the
\* supplied ones of major version, language, license and platform in that
\* order, one space before each; a part that is absent or empty adds
\* nothing.
C16_FinalNameParts ==
    (probe.helper = "final_policy_name" /\ probe.at = "return") =>
       Words(probe.final_policy_name, <<>>) =
          <<probe.parts.name>> \o
          SelectSeq(<<probe.parts.major_version, probe.parts.policy_language,
                      probe.parts.policy_license, probe.parts.platform>>,
                    Supplied)

\* language and platform supplied, major version and license absent
C16_Witness ==
    /\ probe.helper = "final_policy_name"
    /\ probe.at = "return"
    /\ probe.parts.major_version = None
    /\ probe.parts.policy_language = <<"D", "E">>
    /\ probe.parts.policy_license = None
    /\ probe.parts.platform = <<"X">>
    /\ probe.final_policy_name = <<"F", "o", "o", " ", "D", "E", " ", "X">>

(***************************************************************************)
(* The order of the calls of a run.                                        *)
(***************************************************************************)
\* the call reads the Autostage flag of the Content List (lines 301, 706)
AutostageRead(call) == call[4] \in {"A301", "B706"}
\* the call creates or updates a Test Coordination entry
CoordinationWrite(call) ==
    call[2] = TestCoordination /\ call[1] \in {"create", "update"}
\* the prod section creates the missing entry (lines 679, 691)
CoordinationCreation(call) == call[4] \in {"B679", "B691"}

\* C17, as stated: when a run reads the Autostage flag, it has not yet
\* created or updated a Test Coordination entry.
C17_Original ==
    \A i \in 1..Len(calls) :
        AutostageRead(calls[i]) =>
           \A j \in 1..(i - 1) : ~CoordinationWrite(calls[j])

\* C17, amended.  Every write to Test Coordination comes after the run has
\* read the Autostage flag, but for the two calls with which the prod
\* section creates a missing entry (the entry, then its Final Content Name);
\* the untested section makes no write before the read.
C17_ReadBeforeReleaseWrites ==
    /\ \A j \in 1..Len(calls) :
          CoordinationWrite(calls[j]) =>
             \/ CoordinationCreation(calls[j])
             \/ \E i \in 1..(j - 1) : AutostageRead(calls[i])
    /\ FlowA => C17_Original

\* a prod recipe on production that created the entry, read the flag and
\* then released the entry
C17_Witness ==
    /\ FlowB
    /\ Len(calls) >= 5
    /\ calls[3][4] = "B679"
    /\ calls[4][4] = "B691"
    /\ calls[5][4] = "B706"
    /\ \E j \in 6..Len(calls) : calls[j][4] = "B722"

(***************************************************************************)
(* The checks that choose a branch, asked again where the branch acts.     *)
(***************************************************************************)
Recheck(listname, criteria) == check_list(lists[listname], criteria)

\* C18: where a run is about to create, update or delete in the branch an
\* existence check chose, the same check on the lists as they are now gives
\* the result that chose the branch.
C18_BranchMatchesRecheck ==
    /\ pc = "A255" => ~Recheck(ContentList, criteria243)
    /\ pc = "A327" => Recheck(TestCoordination, criteria313)
    /\ pc \in {"A358", "A382", "A391"} =>
          Recheck(TestCoordination, criteria337)
    /\ pc = "A391" =>
          Recheck(TestCoordination, criteria374(check_criteria[loc.check]))
    /\ pc = "A420" =>
          /\ Recheck(TestCoordination, criteria401)
          /\ ~Recheck(TestCoordination, criteria337)
    /\ pc = "A433" => ~Recheck(TestCoordination, criteria337)
    /\ pc \in {"A492", "A503", "A514", "A525", "A536"} =>
          Recheck(TestReview, criteria474)
    /\ pc = "A562" =>
          /\ Recheck(TestReview, criteria546)
          /\ ~Recheck(TestReview, criteria474)
    /\ pc = "A583" =>
          /\ Recheck(TestReview, criteria569)
          /\ ~Recheck(TestReview, criteria474)
    /\ pc = "A595" => ~Recheck(TestReview, criteria474)
    /\ pc = "B679" => ~Recheck(TestCoordination, criteria661)
    /\ pc = "B773" => ~Recheck(TestReview, criteria757)
    /\ pc = "B847" => ~Recheck(ContentList, criteria836)

\* the untested section is about to add the review entry, after it marked
\* coordination entries Obsolete and deleted review entries of the product
C18_Witness ==
    /\ pc = "A595"
    /\ calls[Len(calls)][4] = "A562"
    /\ \E i \in 1..Len(calls) : calls[i][4] = "A420"
    /\ Cardinality(Review) < Cardinality(pre[TestReview])

(***************************************************************************)
(* The untested section on a version that has a coordination entry.        *)
(***************************************************************************)
TestedStatus ==
    {"In progress", "Done", "Deferred", "Waiting for other test manager"}

\* the coordination entries of the run's version when the run started
ExistingEntries ==
    {y \in pre[TestCoordination] :
        y["Self Service Content Name"] = ExpectedItem}

\* the entry as it is now
Now(y) == CHOOSE x \in Coordination : x["ID"] = y["ID"]

\* C19: Flow A on a version whose Test Coordination entry exists.  When the
\* run comes to the entry (line 337) its Release Completed is No and its
\* Status is the one it had.  When the run has returned, the Status is
\* Autostage if the product is set to Autostage, else Needs review if it
\* was In progress, Done, Deferred or Waiting for other test manager, else
\* what it was; the run created no coordination entry and left the entries
\* of other versions as they were.
C19_ExistingEntryStatus ==
    (FlowA /\ ExistingEntries # {}) =>
       /\ pc = "A340" =>
             \A y \in ExistingEntries :
                /\ y["ID"] \in {x["ID"] : x \in Coordination}
                /\ Now(y)["Release Completed"] = "No"
                /\ Now(y)["Status"] = y["Status"]
       /\ Returned =>
             /\ \A y \in ExistingEntries :
                   /\ y["ID"] \in {x["ID"] : x \in Coordination}
                   /\ Now(y)["Status"] =
                         IF AutostageSet(Content) THEN "Autostage"
                         ELSE IF y["Status"] \in TestedStatus
                              THEN "Needs review"
                              ELSE y["Status"]
             /\ Created(TestCoordination) = {}
             /\ \A z \in pre[TestCoordination] \ ExistingEntries :
                   z \in Coordination

\* an Obsolete entry of an Autostage product, beside the entry of another
\* version
C19_Witness ==
    /\ Returned
    /\ FlowA
    /\ AutostageSet(Content)
    /\ \E y \in ExistingEntries :
          y["Status"] = "Obsolete" /\ Now(y)["Status"] = "Autostage"
    /\ pre[TestCoordination] \ ExistingEntries # {}

\* C20: Flow A on a version whose Test Coordination entry is released: when
\* the run has returned the entry has Release Completed = No, and, the
\* product not being set to Autostage, an entry that was In progress, Done,
\* Deferred or Waiting for other test manager has the Status Needs review.
C20_ReleasedEntryReopened ==
    (Returned /\ FlowA) =>
       \A y \in ExistingEntries :
          y["Release Completed"] = "Yes" =>
             /\ y["ID"] \in {x["ID"] : x \in Coordination}
             /\ Now(y)["Release Completed"] = "No"
             /\ (~AutostageSet(Content) /\ y["Status"] \in TestedStatus) =>
                   Now(y)["Status"] = "Needs review"

\* an entry released as Done, of a product that is not set to Autostage
C20_Witness ==
    /\ Returned
    /\ FlowA
    /\ ~AutostageSet(Content)
    /\ \E y \in ExistingEntries :
          /\ y["Release Completed"] = "Yes"
          /\ y["Status"] = "Done"
          /\ Now(y)["Release Completed"] = "No"
          /\ Now(y)["Status"] = "Needs review"

(***************************************************************************)
(* The untested section and the Test Review list.                          *)
(***************************************************************************)
\* the review entries of the run's version when the run started
ExistingReviews ==
    {y \in pre[TestReview] : y["Self Service Content Name"] = ExpectedItem}
\* the review entries of the product that were not released to TST / PRD
UnreleasedReviews ==
    {y \in pre[TestReview] :
        /\ y["Final Content Name"] = ExpectedFinal
        /\ y["Release Completed TST"] = "No"}
NotOnPrdReviews ==
    {y \in pre[TestReview] :
        /\ y["Final Content Name"] = ExpectedFinal
        /\ y["Release Completed PRD"] = "No"}

C22_ExistingReviewEntry ==
    (Returned /\ FlowA /\ ExistingReviews # {}) =>
       /\ Review =
             {IF y \in ExistingReviews
              THEN [y EXCEPT
                      !["Release Completed TST"] = "No",
                      !["Release Completed PRD"] = "No",
                      !["Ready for Production"] = "No",
                      !["Executable_Command"] = env.SP_EXECUTABLE_COMMAND,
                      !["Process_Name"] = env.SP_PROCESS_NAME]
              ELSE y : y \in pre[TestReview]}
       /\ \A i \in 1..Len(calls) :
             calls[i][2] = TestReview => calls[i][1] \in {"query", "update"}

\* an entry that was released to TST and ready for production
C22_Witness ==
    /\ Returned
    /\ FlowA
    /\ \E y \in ExistingReviews :
          /\ y["Release Completed TST"] = "Yes"
          /\ y["Ready for Production"] = "Yes"
          /\ y["Executable_Command"] # env.SP_EXECUTABLE_COMMAND
    /\ \A x \in Review : x["Ready for Production"] = "No"

(***************************************************************************)
(* The untested section and the Content List.                              *)
(***************************************************************************)
\* the run has made the call of line `at`
Called(at) == \E i \in 1..Len(calls) : calls[i][4] = at /\ calls[i][3] = "ok"

\* C23: Flow A, once the Content List step is done and the run has gone on
\* to read the Autostage flag (line 301).  An entry
\* was created exactly when the list had none of the final policy name;
\* every entry of that name has the run's version as Untested Version, the
\* run's category and the Content Type Application; an entry that was
\* there keeps its Prod. Version, Test Report and Autostage.
C23_ContentListUpsert ==
    (FlowA /\ Called("A301")) =>
       /\ (Created(ContentList) # {}) =
             ~ \E y \in pre[ContentList] :
                  y["Self Service Content"] = ExpectedFinal
       /\ \A x \in Content :
             x["Self Service Content"] = ExpectedFinal =>
                /\ x["Untested Version"] = ExpectedVersion
                /\ x["Category"] = env.PKG_CATEGORY
                /\ x["Content Type"] = "Application"
       /\ \A y \in pre[ContentList] :
             \E x \in Content :
                /\ x["ID"] = y["ID"]
                /\ x["Self Service Content"] = y["Self Service Content"]
                /\ x["Prod. Version"] = y["Prod. Version"]
                /\ x["Test Report"] = y["Test Report"]
                /\ x["Autostage"] = y["Autostage"]

\* an entry that had a Prod. Version and a Test Report got a new Untested
\* Version
C23_Witness ==
    /\ FlowA
    /\ Called("A301")
    /\ Created(ContentList) = {}
    /\ \E y \in pre[ContentList] :
          /\ y["Self Service Content"] = ExpectedFinal
          /\ y["Prod. Version"] # ""
          /\ y["Test Report"] # ""
          /\ y["Untested Version"] # ExpectedVersion

\* C24: a run without a final policy name on a server whose URL does not
\* contain 'prd' makes no remote call, leaves the lists as they are and
\* returns without an error.
C24_NothingOffProduction ==
    (env.SELFSERVICE_POLICY_NAME = None /\ ~IsPrd /\ env.absent = {}
       /\ pc # "idle") =>
       /\ pc \in {"return", "done"}
       /\ calls = <<>>
       /\ lists = pre

\* such a run has returned, on lists that have entries
C24_Witness ==
    /\ pc = "done"
    /\ env.SELFSERVICE_POLICY_NAME = None
    /\ IsTst
    /\ ~IsPrd
    /\ env.absent = {}
    /\ calls = <<>>
    /\ Content # {}
    /\ Coordination # {}

KeyColumn(listname) ==
    IF listname = ContentList THEN "Self Service Content"
    ELSE "Self Service Content Name"
KeyOf(listname) == IF listname = ContentList THEN F ELSE S

ExternalCreate ==
    /\ writer = "idle"
    /\ pc \notin {"idle", "failed"}
    /\ \E listname \in ListNames :
          /\ ~check_list(lists[listname],
                         << <<KeyColumn(listname), "Eq", KeyOf(listname)>> >>)
          /\ lists' = [lists EXCEPT ![listname] =
                          add_record(@, nextId[listname], listname,
                                     KeyColumn(listname), KeyOf(listname))]
          /\ nextId' = [nextId EXCEPT ![listname] = @ + 1]
          /\ calls' = Append(calls, <<"create", listname, "ok", "writer">>)
    /\ writer' = "done"
    /\ UNCHANGED <<pc, env, loc, pre, runs, repeat, faults, probe, plan>>

InitRace == Boot(FALSE) /\ plan = AnyRuns /\ writer = "idle"
NextRace == Next \/ ExternalCreate
SpecRace == InitRace /\ [][NextRace]_vars

\* no two entries of a list have the same key
KeysUnique(ls) ==
    /\ UniqueIn(ls[ContentList], "Self Service Content")
    /\ UniqueIn(ls[TestCoordination], "Self Service Content Name")
    /\ UniqueIn(ls[TestReview], "Self Service Content Name")

\* the last call of the log is a create of the run, made after the other
\* writer created in the same list, which was after a query of the run on
\* that list
RacedCreate(log) ==
    LET k == Len(log)
    IN /\ k >= 3
       /\ log[k][1] = "create"
       /\ log[k][4] # "writer"
       /\ \E i \in 1..k, j \in 1..k :
             /\ i < j
             /\ j < k
             /\ log[i][1] = "query"
             /\ log[i][2] = log[k][2]
             /\ log[j][1] = "create"
             /\ log[j][2] = log[k][2]
             /\ log[j][4] = "writer"

\* C26: with another writer, two entries of one key in one list can come
\* about, and only in one way: the run creates its entry after the other
\* writer created one of the same key between the run's existence check
\* and that create.  (Without the other writer the keys stay unique: C3.)
C26_DuplicateOnlyByRace ==
    [][(KeysUnique(lists) /\ ~KeysUnique(lists')) => RacedCreate(calls')]_vars

\* two Test Coordination entries of the run's key
C26_Witness ==
    /\ writer = "done"
    /\ \E x \in Coordination, y \in Coordination :
          /\ x["ID"] # y["ID"]
          /\ x["Self Service Content Name"] = ExpectedItem
          /\ y["Self Service Content Name"] = ExpectedItem

(***************************************************************************)
(* The life of one version: after at most MaxBefore runs of any kind, the  *)
(* untested recipe on production, the prod recipe on test and the prod     *)
(* recipe on production, for one final policy name and one version.        *)
(***************************************************************************)
Lifecycle == <<"untested", "test", "production">>

InitLifecycle ==
    /\ Boot(FALSE)
    /\ writer = "none"
    /\ \E n \in 0..MaxBefore : plan = [i \in 1..n |-> "any"] \o Lifecycle

SpecLifecycle == InitLifecycle /\ [][Next]_vars

LifecycleDone ==
    /\ Returned
    /\ runs = Len(plan)
    /\ Len(plan) >= Len(Lifecycle)
    /\ \A i \in 1..Len(Lifecycle) :
          plan[Len(plan) - Len(Lifecycle) + i] = Lifecycle[i]

\* C27: after Flow A on production, Flow B on test and Flow B on production
\* for one version, the lists have one Test Coordination entry of the
\* version, released, with the Status Done (Autostage for an Autostage
\* product); one Test Review entry of the version, released to TST, ready
\* for production and released to PRD; and the Content List entry of the
\* product has no Untested Version and the version as Prod. Version.  The
\* last run created nothing.
C27_LifecycleOfAVersion ==
    LifecycleDone =>
       /\ \E x \in Coordination :
             /\ x["Self Service Content Name"] = ExpectedItem
             /\ \A y \in Coordination :
                   y["Self Service Content Name"] = ExpectedItem => y = x
             /\ x["Release Completed"] = "Yes"
             /\ x["Status"] =
                   IF AutostageSet(Content) THEN "Autostage" ELSE "Done"
       /\ \E x \in Review :
             /\ x["Self Service Content Name"] = ExpectedItem
             /\ \A y \in Review :
                   y["Self Service Content Name"] = ExpectedItem => y = x
             /\ x["Release Completed TST"] = "Yes"
             /\ x["Ready for Production"] = "Yes"
             /\ x["Release Completed PRD"] = "Yes"
       /\ \E x \in Content :
             /\ x["Self Service Content"] = ExpectedFinal
             /\ \A y \in Content :
                   y["Self Service Content"] = ExpectedFinal => y = x
             /\ x["Untested Version"] = ""
             /\ x["Prod. Version"] = ExpectedVersion
       /\ \A listname \in ListNames : Created(listname) = {}

\* the life of version 1.1 after a run for another version, on lists
\* that had an entry of version 1.0
C27_Witness ==
    /\ LifecycleDone
    /\ Len(plan) > Len(Lifecycle)
    /\ ExpectedVersion = "1.1"
    /\ Cardinality(Coordination) >= 2
    /\ Cardinality(Review) >= 1

(***************************************************************************)
(* What a run may touch.                                                   *)
(***************************************************************************)
\* an entry of the run's product: its key is the final policy name (Content
\* List), or it is the entry of the run's version or names the final policy
\* name as Final Content Name (Test Coordination, Test Review)
OfTheProduct(listname, x) ==
    IF listname = ContentList
    THEN x["Self Service Content"] = ExpectedFinal
    ELSE \/ x["Self Service Content Name"] = ExpectedItem
         \/ x["Final Content Name"] = ExpectedFinal

\* C28: every entry a step creates, changes or deletes is an entry of the
\* run's product; the entries of other products stay as they are.
C28_ProductIsolation ==
    [][\A listname \in ListNames :
          \A x \in (lists[listname] \ lists'[listname])
                    \cup (lists'[listname] \ lists[listname]) :
             OfTheProduct(listname, x)]_vars

\* a run for "Foo 2" has marked its older entry Obsolete and created a new
\* one, beside the unreleased entry of "Foo"
C28_Witness ==
    /\ Returned
    /\ FlowA
    /\ ExpectedFinal = "Foo 2"
    /\ Created(TestCoordination) # {}
    /\ \E x \in Coordination :
          x["Final Content Name"] = "Foo 2" /\ x["Status"] = "Obsolete"
    /\ \E x \in pre[TestCoordination] :
          /\ x["Final Content Name"] = "Foo"
          /\ OpenCoordination(x)
          /\ x \in Coordination

(***************************************************************************)
(* delete_record on its own.                                               *)
(***************************************************************************)
DeleteReturned == probe.helper = "delete_record" /\ probe.at = "return"

\* the items of the list that satisfy every entry of the criteria dict
MatchingBefore ==
    {it \in probe.before :
        \A i \in 1..Len(probe.criteria) : Satisfies(probe.criteria[i], it)}

\* how many times the delete requests name the ID
TimesNamed(id) ==
    Cardinality({ij \in UNION {{<<i, j>> : j \in 1..Len(probe.requests[i])} :
                                i \in 1..Len(probe.requests)} :
                    probe.requests[ij[1]][ij[2]] = id})

\* C29: when delete_record has returned, its delete requests together name
\* the ID of every item that matched the criteria once, no ID twice and no
\* other ID, and no item that matches the criteria is left in the list.
C29_EachIdOnce ==
    DeleteReturned =>
       /\ \A it \in probe.before :
             TimesNamed(it["ID"]) = IF it \in MatchingBefore THEN 1 ELSE 0
       /\ probe.items = probe.before \ MatchingBefore

\* What delete_record does instead: the i-th of its k requests names the
\* first i matching IDs, so the j-th matching ID is named k - j + 1 times
\* and no other ID is named; the matching items are gone and the others
\* are left as they were.
C29_CumulativeRequests ==
    DeleteReturned =>
       LET ids == matching_ids(probe.before, probe.criteria)
       IN /\ {ids[j] : j \in 1..Len(ids)} =
                {it["ID"] : it \in MatchingBefore}
          /\ probe.requests = delete_requests(ids)
          /\ \A j \in 1..Len(ids) : TimesNamed(ids[j]) = Len(ids) - j + 1
          /\ \A it \in probe.before \ MatchingBefore :
                TimesNamed(it["ID"]) = 0
          /\ probe.items = probe.before \ MatchingBefore
          /\ probe.items = delete_record(probe.before, probe.criteria)

\* delete_record has returned from a list of three items of which two
\* matched the two entries of the criteria
C29_Witness ==
    /\ DeleteReturned
    /\ Len(probe.criteria) = 2
    /\ Cardinality(probe.before) = 3
    /\ Cardinality(MatchingBefore) = 2
    /\ Len(probe.requests) = 2
====
